---- MODULE Spec2Model ----
(***************************************************************************)
(* Model of the cooperative green-thread / actor runtime of                *)
(* actor_model_imprementation_rust/src/green.rs.                           *)
(*                                                                         *)
(* One physical thread of control.  The code that runs is either the host  *)
(* (main), or the actor whose context is at the front of CONTEXTS.  Every  *)
(* context records where it continues when it is switched to (pc):         *)
(*   "entry"    x30 = entry_point, never run yet (Registers::new)          *)
(*   "running"  executing its entry function                               *)
(*   "schedule" | "spawn" | "send"   saved by set_context inside           *)
(*              schedule(), called directly / from spawn / from send       *)
(*   "receive"  saved by set_context inside receive()                      *)
(* and the stack its saved registers run on (sp).  The code switches only  *)
(* to the front of CONTEXTS; the part of the interrupted call after        *)
(* set_context returns 1 is the Resume* action of that context, and it is  *)
(* the only action enabled until it has run.                               *)
(***************************************************************************)
EXTENDS Integers, Sequences, FiniteSets, TLC

\* ---------------------------------------------------------------- bounds
MaxActors == 3       \* contexts allocated over the life of the process
MaxSteps == 5        \* runtime calls made by actor code over the life of the process
MaxLoopSteps == 10   \* the same, in the runs where actors only spawn and loop on schedule()
MaxFairSteps == 4    \* the same, in the runs checked for termination under fairness

\* thread ids rand::random can return: as many as there can be contexts, so that
\* an id can be new, live, or one a terminated actor had
Ids == 1..MaxActors
\* message payloads: the n-th send to an id carries payload n, so that the
\* payloads sent to one id are distinct and a payload names its own position
Msgs == 1..MaxSteps
Stacks == 1..MaxActors
NullStack == 0       \* ptr::null_mut()
MainStack == 0       \* the stack of the host thread, which is no actor's stack
None == 0            \* Option::None of receive()

VARIABLES
    CTX_MAIN,       \* TRUE: Some(registers of main), FALSE: None
    UNUSED_STACK,   \* NullStack or the stack waiting to be freed
    CONTEXTS,       \* ready queue: sequence of contexts
    ID,             \* set of live thread ids
    MESSAGES,       \* thread id -> non-empty sequence of payloads
    WAITING,        \* thread id -> context blocked in receive()
    cur,            \* the stack the processor runs on (sp register)
    main_pc,        \* "host" | "saved" | "resumed": position of main
    fatal,          \* "none" | "twice" | "deadlock": the panic that ended the process
    heap,           \* number of stacks allocated so far (next stack = heap + 1)
    released,       \* stack -> number of times dealloc() was called on it
    exited,         \* stacks whose entry function has returned in this session
    sent,           \* thread id -> payloads passed to send(id, _), in call order, this session
    born,           \* thread id -> how many of them were sent before its holder was spawned
    recvd,          \* thread id -> payloads returned by receive() of id, in order, this session
    iters,          \* stack -> schedule() calls since the last call that was not schedule()
    wakeDebt,       \* <<sender stack, woken stack>>: send woke, woken not resumed yet
    woken,          \* stacks a send moved out of WAITING and that have not blocked again
    last,           \* the last step: [op, ctx, key, val, done]
    steps,          \* runtime calls made by actor code so far
    calls           \* calls of spawn_from_main made so far (host and actors)

code == <<CTX_MAIN, UNUSED_STACK, CONTEXTS, ID, MESSAGES, WAITING>>
vars == <<CTX_MAIN, UNUSED_STACK, CONTEXTS, ID, MESSAGES, WAITING, cur, main_pc, fatal,
          heap, released, exited, sent, born, recvd, iters, wakeDebt, woken, last, steps,
          calls>>

\* ---------------------------------------------------------------- helpers
EmptyMap == [k \in {} |-> 0]
NoLog == [k \in Ids |-> <<>>]
NoIters == [s \in Stacks |-> 0]

\* Context::new: registers with x30 = entry_point and sp = the new stack
Context_new(thread_id, stack) ==
    [thread_id |-> thread_id, stack |-> stack, pc |-> "entry", sp |-> stack]

\* the context that was switched to runs actor code
SetPc(ctx, pc) == [ctx EXCEPT !.pc = pc]

\* set_context(regs) returning 0: the registers of ctx now hold the state of
\* the code that runs, inside the call named by pc
set_context(ctx, pc) == [ctx EXCEPT !.pc = pc, !.sp = cur]

\* switch_context(CONTEXTS.front().regs): the stack the processor runs on next
switch_context(q) == IF Len(q) > 0 THEN Head(q).sp ELSE cur

StacksOf(q) == {q[i].stack : i \in 1..Len(q)}
IdsOf(q) == {q[i].thread_id : i \in 1..Len(q)}
WaitingStacks == {WAITING[k].stack : k \in DOMAIN WAITING}

\* MappedList::push_back
MappedList_push_front(m, key, val) ==
    IF key \in DOMAIN m
    THEN [k \in DOMAIN m |-> IF k = key THEN <<val>> \o m[k] ELSE m[k]]
    ELSE [k \in DOMAIN m \cup {key} |-> IF k = key THEN <<val>> ELSE m[k]]

MappedList_push_back_noinsert(m, key, val) ==
    IF key \in DOMAIN m
    THEN [k \in DOMAIN m |-> IF k = key THEN Append(m[k], val) ELSE m[k]]
    ELSE m

MappedList_push_back(m, key, val) ==
    IF key \in DOMAIN m
    THEN [k \in DOMAIN m |-> IF k = key THEN Append(m[k], val) ELSE m[k]]
    ELSE [k \in DOMAIN m \cup {key} |-> IF k = key THEN <<val>> ELSE m[k]]

\* MappedList::pop_front: the returned value, and the map afterwards
MappedList_pop_front_val_last(m, key) ==
    IF key \in DOMAIN m
    THEN (IF Len(m[key]) = 0 THEN None ELSE m[key][Len(m[key])])
    ELSE None

MappedList_pop_front_val(m, key) ==
    IF key \in DOMAIN m
    THEN (IF Len(m[key]) = 0 THEN None ELSE Head(m[key]))
    ELSE None

MappedList_pop_front_map_keep(m, key) ==
    IF key \in DOMAIN m
    THEN [m EXCEPT ![key] = IF Len(@) = 0 THEN <<>> ELSE Tail(@)]
    ELSE m

MappedList_pop_front_map(m, key) ==
    IF key \in DOMAIN m
    THEN LET rest == IF Len(m[key]) = 0 THEN <<>> ELSE Tail(m[key])
         IN  IF Len(rest) = 0
             THEN [k \in DOMAIN m \ {key} |-> m[k]]
             ELSE [m EXCEPT ![key] = rest]
    ELSE m

\* MappedList::clear
MappedList_clear_keep(m) == m

MappedList_clear(m) == EmptyMap

\* HashMap::remove on WAITING in send(): the map afterwards
Waiting_keep(w, key) == w

Waiting_remove(w, key) == [k \in DOMAIN w \ {key} |-> w[k]]

\* HashMap::insert on WAITING in receive()
Waiting_insert(w, key, ctx) ==
    [k \in DOMAIN w \cup {key} |-> IF k = key THEN ctx ELSE w[k]]

\* send(): CONTEXTS.push_back(ctx) of the woken context
Wake_front(q, ctx) == <<ctx>> \o q

Wake(q, ctx) == Append(q, ctx)

\* schedule(): pop_front, then push_back of the caller, whose registers are
\* saved by set_context inside the call named by pc
Rotate_second(q, pc) == <<q[2], set_context(q[1], pc)>> \o SubSeq(q, 3, Len(q))

Rotate(q, pc) == Tail(q) \o <<set_context(Head(q), pc)>>

\* schedule(): nothing to switch to
Schedule_never(q) == FALSE

Schedule_noop(q) == Len(q) = 1

\* receive(): no other context can run
Deadlock_never(q) == Len(q) = 0

Deadlock(q) == Len(q) = 1

\* spawn_from_main(): if let Some(_) = &CTX_MAIN
CalledTwice_never(m) == FALSE

CalledTwice(m) == m

\* rm_unused_stack: the dealloc() count, and the slot afterwards
rm_unused_stack_released(slot, rel) ==
    IF slot # NullStack THEN [rel EXCEPT ![slot] = @ + 1] ELSE rel

rm_unused_stack_slot_keep(slot) == slot

rm_unused_stack_slot(slot) == NullStack

\* the code that runs is the entry function of the front context
Running ==
    /\ fatal = "none"
    /\ main_pc = "saved"
    /\ Len(CONTEXTS) > 0
    /\ Head(CONTEXTS).pc = "running"

\* a context was switched to and has not run the rest of its call yet
Resumed(pcs) ==
    /\ fatal = "none"
    /\ main_pc = "saved"
    /\ Len(CONTEXTS) > 0
    /\ Head(CONTEXTS).pc \in pcs

Self == Head(CONTEXTS)

\* op: the call or step taken; ctx: the stack of the context that took it;
\* key, val: the id and payload involved; done: the runtime call that returned
\* to actor or host code in this step ("" when none did)
Step(op, ctx, key, val, done) ==
    [op |-> op, ctx |-> ctx, key |-> key, val |-> val, done |-> done]

\* schedule(): the ready queue after the call made inside the call named by pc
schedule(q, pc) == IF Schedule_noop(q) THEN q ELSE Rotate(q, pc)

\* ---------------------------------------------------------------- initial state
Init ==
    /\ CTX_MAIN = FALSE
    /\ UNUSED_STACK = NullStack
    /\ CONTEXTS = <<>>
    /\ ID = {}
    /\ MESSAGES = EmptyMap
    /\ WAITING = EmptyMap
    /\ cur = MainStack
    /\ main_pc = "host"
    /\ fatal = "none"
    /\ heap = 0
    /\ released = [s \in Stacks |-> 0]
    /\ exited = {}
    /\ sent = NoLog
    /\ born = [id \in Ids |-> 0]
    /\ recvd = NoLog
    /\ iters = NoIters
    /\ wakeDebt = {}
    /\ woken = {}
    /\ last = Step("init", 0, 0, None, "")
    /\ steps = 0
    /\ calls = 0

\* ---------------------------------------------------------------- spawn_from_main
\* lines 160-182: the guard, the initialisation and the switch to the first actor
spawn_from_main(caller) ==
    /\ calls' = calls + 1
    /\ IF CalledTwice(CTX_MAIN)
       THEN /\ fatal' = "twice"
            /\ last' = Step("spawn_from_main", caller, 0, None, "")
            /\ UNCHANGED <<CTX_MAIN, UNUSED_STACK, CONTEXTS, ID, MESSAGES, WAITING, cur,
                           main_pc, heap, released, exited, sent, born, recvd, iters,
                           wakeDebt, woken>>
       ELSE /\ heap < MaxActors
            /\ \E id \in Ids :
                 /\ ID' = {id}
                 /\ CONTEXTS' = Append(CONTEXTS, Context_new(id, heap + 1))
                 /\ cur' = switch_context(Append(CONTEXTS, Context_new(id, heap + 1)))
                 /\ last' = Step("spawn_from_main", caller, id, None, "")
            /\ CTX_MAIN' = TRUE
            /\ MESSAGES' = EmptyMap
            /\ WAITING' = EmptyMap
            /\ main_pc' = "saved"
            /\ heap' = heap + 1
            /\ sent' = NoLog
            /\ born' = [i \in Ids |-> 0]
            /\ recvd' = NoLog
            /\ iters' = NoIters
            /\ wakeDebt' = {}
            /\ woken' = {}
            /\ exited' = {}
            /\ UNCHANGED <<UNUSED_STACK, fatal, released>>

\* the host calls spawn_from_main
HostSpawnFromMain ==
    /\ fatal = "none"
    /\ main_pc = "host"
    /\ spawn_from_main(0)
    /\ UNCHANGED steps

\* actor code calls spawn_from_main
ActorSpawnFromMainCall(budget) ==
    /\ Running
    /\ steps < budget
    /\ steps' = steps + 1
    /\ spawn_from_main(Self.stack)

ActorSpawnFromMain == ActorSpawnFromMainCall(MaxSteps)

\* lines 184-196: main was switched back to; teardown and return to the host
Teardown ==
    /\ fatal = "none"
    /\ main_pc = "resumed"
    /\ released' = rm_unused_stack_released(UNUSED_STACK, released)
    /\ UNUSED_STACK' = rm_unused_stack_slot(UNUSED_STACK)
    /\ CTX_MAIN' = FALSE
    /\ CONTEXTS' = <<>>
    /\ MESSAGES' = MappedList_clear(MESSAGES)
    /\ WAITING' = EmptyMap
    /\ ID' = {}
    /\ main_pc' = "host"
    /\ iters' = NoIters
    /\ wakeDebt' = {}
    /\ woken' = {}
    /\ last' = Step("teardown", 0, 0, None, "spawn_from_main")
    /\ UNCHANGED <<cur, fatal, heap, exited, sent, born, recvd, steps, calls>>

\* ---------------------------------------------------------------- switched-to contexts
\* entry_point, lines 268-271: a new context starts its entry function
ResumeEntry ==
    /\ Resumed({"entry"})
    /\ CONTEXTS' = [CONTEXTS EXCEPT ![1] = SetPc(@, "running")]
    /\ last' = Step("start", Self.stack, Self.thread_id, None, "")
    /\ UNCHANGED <<CTX_MAIN, UNUSED_STACK, ID, MESSAGES, WAITING, cur, main_pc, fatal,
                   heap, released, exited, sent, born, recvd, iters, wakeDebt, woken,
                   steps, calls>>

\* schedule, lines 211-217, set_context returned 1: free the unused stack and
\* return (from schedule, and from the spawn or send that called it)
ResumeSchedule ==
    /\ Resumed({"schedule", "spawn", "send"})
    /\ released' = rm_unused_stack_released(UNUSED_STACK, released)
    /\ UNUSED_STACK' = rm_unused_stack_slot(UNUSED_STACK)
    /\ CONTEXTS' = [CONTEXTS EXCEPT ![1] = SetPc(@, "running")]
    /\ last' = Step("resume", Self.stack, Self.thread_id, None, Self.pc)
    /\ UNCHANGED <<CTX_MAIN, ID, MESSAGES, WAITING, cur, main_pc, fatal, heap,
                   exited, sent, born, recvd, iters, wakeDebt, woken, steps, calls>>

\* receive, lines 256-264, set_context returned 1: free the unused stack and
\* return what the mailbox holds for the caller
ResumeReceive ==
    /\ Resumed({"receive"})
    /\ released' = rm_unused_stack_released(UNUSED_STACK, released)
    /\ UNUSED_STACK' = rm_unused_stack_slot(UNUSED_STACK)
    /\ LET key == Self.thread_id
           val == MappedList_pop_front_val(MESSAGES, key)
       IN  /\ MESSAGES' = MappedList_pop_front_map(MESSAGES, key)
           /\ recvd' = IF val # None THEN [recvd EXCEPT ![key] = Append(@, val)] ELSE recvd
           /\ last' = Step("resume", Self.stack, key, val, "receive")
    /\ CONTEXTS' = [CONTEXTS EXCEPT ![1] = SetPc(@, "running")]
    /\ wakeDebt' = {d \in wakeDebt : d[2] # Self.stack}
    /\ UNCHANGED <<CTX_MAIN, ID, WAITING, cur, main_pc, fatal, heap,
                   exited, sent, born, iters, woken, steps, calls>>

\* ---------------------------------------------------------------- calls made by actor code
\* get_id, lines 138-148: a random id that is not live
get_id_any(live) == Ids

get_id(live) == Ids \ live

\* spawn, lines 150-157
SpawnCall(budget) ==
    /\ Running
    /\ steps < budget
    /\ heap < MaxActors
    /\ \E id \in get_id(ID) :
         LET q == Append(CONTEXTS, Context_new(id, heap + 1))
         IN  /\ ID' = ID \cup {id}
             /\ born' = [born EXCEPT ![id] = Len(sent[id])]
             /\ CONTEXTS' = schedule(q, "spawn")
             /\ cur' = switch_context(schedule(q, "spawn"))
             /\ last' = Step("spawn", Self.stack, id, None,
                             IF Schedule_noop(q) THEN "spawn" ELSE "")
    /\ heap' = heap + 1
    /\ steps' = steps + 1
    /\ iters' = NoIters
    /\ UNCHANGED <<CTX_MAIN, UNUSED_STACK, MESSAGES, WAITING, main_pc, fatal,
                   released, exited, sent, recvd, wakeDebt, woken, calls>>

Spawn == SpawnCall(MaxSteps)

\* send, lines 229-238
SendCall(budget) ==
    /\ Running
    /\ steps < budget
    /\ \E key \in Ids :
         LET msg == Len(sent[key]) + 1
             woke == key \in DOMAIN WAITING
             q == IF woke THEN Wake(CONTEXTS, WAITING[key]) ELSE CONTEXTS
         IN  /\ MESSAGES' = MappedList_push_back(MESSAGES, key, msg)
             /\ WAITING' = IF woke THEN Waiting_remove(WAITING, key) ELSE WAITING
             /\ CONTEXTS' = schedule(q, "send")
             /\ cur' = switch_context(schedule(q, "send"))
             /\ sent' = [sent EXCEPT ![key] = Append(@, msg)]
             /\ born' = born
             /\ wakeDebt' = IF woke
                            THEN wakeDebt \cup {<<Self.stack, WAITING[key].stack>>}
                            ELSE wakeDebt
             /\ woken' = IF woke THEN woken \cup {WAITING[key].stack} ELSE woken
             /\ last' = Step("send", Self.stack, key, msg,
                             IF Schedule_noop(q) THEN "send" ELSE "")
    /\ steps' = steps + 1
    /\ iters' = NoIters
    /\ UNCHANGED <<CTX_MAIN, UNUSED_STACK, ID, main_pc, fatal, heap,
                   released, exited, recvd, calls>>

Send == SendCall(MaxSteps)

\* receive, lines 240-259, up to the switch
ReceiveCall(budget) ==
    /\ Running
    /\ steps < budget
    /\ LET key == Self.thread_id
           val == MappedList_pop_front_val(MESSAGES, key)
       IN  IF val # None
           THEN \* a message is already queued
                /\ MESSAGES' = MappedList_pop_front_map(MESSAGES, key)
                /\ recvd' = [recvd EXCEPT ![key] = Append(@, val)]
                /\ last' = Step("receive", Self.stack, key, val, "receive")
                /\ UNCHANGED <<CONTEXTS, WAITING, cur, fatal, woken>>
           ELSE IF Deadlock(CONTEXTS)
           THEN /\ fatal' = "deadlock"
                /\ last' = Step("receive", Self.stack, key, None, "")
                /\ UNCHANGED <<CONTEXTS, WAITING, cur, MESSAGES, recvd, woken>>
           ELSE \* block and switch to the next ready context
                /\ CONTEXTS' = Tail(CONTEXTS)
                /\ WAITING' = Waiting_insert(WAITING, key, set_context(Self, "receive"))
                /\ cur' = switch_context(Tail(CONTEXTS))
                /\ woken' = woken \ {Self.stack}
                /\ last' = Step("receive", Self.stack, key, None, "")
                /\ UNCHANGED <<MESSAGES, recvd, fatal>>
    /\ steps' = steps + 1
    /\ iters' = NoIters
    /\ UNCHANGED <<CTX_MAIN, UNUSED_STACK, ID, main_pc, heap,
                   released, exited, sent, born, wakeDebt, calls>>

Receive == ReceiveCall(MaxSteps)

\* schedule, lines 200-214, up to the switch
ScheduleCall(budget) ==
    /\ Running
    /\ steps < budget
    /\ CONTEXTS' = schedule(CONTEXTS, "schedule")
    /\ cur' = switch_context(schedule(CONTEXTS, "schedule"))
    /\ iters' = [iters EXCEPT ![Self.stack] = @ + 1]
    /\ last' = Step("schedule", Self.stack, Self.thread_id, None,
                    IF Schedule_noop(CONTEXTS) THEN "schedule" ELSE "")
    /\ steps' = steps + 1
    /\ UNCHANGED <<CTX_MAIN, UNUSED_STACK, ID, MESSAGES, WAITING, main_pc, fatal, heap,
                   released, exited, sent, born, recvd, wakeDebt, woken, calls>>

Schedule == ScheduleCall(MaxSteps)

\* entry_point, lines 274-288: the next context to run after the pop
\* ("main" when the ready queue is empty and CTX_MAIN is Some)
NextAfterExit_stuck(q, m) == IF Len(q) > 0 THEN "actor" ELSE "none"

NextAfterExit(q, m) == IF Len(q) > 0 THEN "actor" ELSE IF m THEN "main" ELSE "none"

\* entry_point, lines 272-290: the entry function of the running actor returned
Exit ==
    /\ Running
    /\ LET ctx == Head(CONTEXTS)
           to == NextAfterExit(Tail(CONTEXTS), CTX_MAIN)
       IN  /\ CONTEXTS' = Tail(CONTEXTS)
           /\ ID' = ID \ {ctx.thread_id}
           /\ born' = [born EXCEPT ![ctx.thread_id] = 0]
           /\ UNUSED_STACK' = ctx.stack
           /\ exited' = exited \cup {ctx.stack}
           /\ cur' = IF to = "main" THEN MainStack ELSE switch_context(Tail(CONTEXTS))
           /\ main_pc' = IF to = "main" THEN "resumed" ELSE main_pc
           /\ fatal' = IF to = "none" THEN "entry point" ELSE fatal
           /\ last' = Step("exit", ctx.stack, ctx.thread_id, None, "")
    /\ iters' = NoIters
    /\ woken' = woken \ {Self.stack}
    /\ UNCHANGED <<CTX_MAIN, MESSAGES, WAITING, heap, released, sent, recvd,
                   wakeDebt, steps, calls>>

\* ---------------------------------------------------------------- specification
Next ==
    \/ HostSpawnFromMain
    \/ ActorSpawnFromMain
    \/ Teardown
    \/ ResumeEntry
    \/ ResumeSchedule
    \/ ResumeReceive
    \/ Spawn
    \/ Send
    \/ Receive
    \/ Schedule
    \/ Exit

Spec == Init /\ [][Next]_vars

\* the same program with its own budget of runtime calls; the running code
\* always takes its next step (single thread of control)
FairActorSpawnFromMain == ActorSpawnFromMainCall(MaxFairSteps)

FairSpawn == SpawnCall(MaxFairSteps)

FairSend == SendCall(MaxFairSteps)

FairReceive == ReceiveCall(MaxFairSteps)

FairSchedule == ScheduleCall(MaxFairSteps)

FairNext ==
    \/ HostSpawnFromMain
    \/ FairActorSpawnFromMain
    \/ Teardown
    \/ ResumeEntry
    \/ ResumeSchedule
    \/ ResumeReceive
    \/ FairSpawn
    \/ FairSend
    \/ FairReceive
    \/ FairSchedule
    \/ Exit

FairSpec == Init /\ [][FairNext]_vars /\ WF_vars(FairNext)

\* actors that only spawn actors and loop on schedule(): no send, no receive,
\* no entry function returns
LoopSchedule == ScheduleCall(MaxLoopSteps)

LoopNext ==
    \/ HostSpawnFromMain
    \/ ResumeEntry
    \/ ResumeSchedule
    \/ Spawn
    \/ LoopSchedule

LoopSpec == Init /\ [][LoopNext]_vars

\* ---------------------------------------------------------------- properties
IsPrefix(a, b) == Len(a) <= Len(b) /\ \A i \in 1..Len(a) : a[i] = b[i]

MailboxEmpty(id) == id \notin DOMAIN MESSAGES \/ Len(MESSAGES[id]) = 0

QueueOf(m, id) == IF id \in DOMAIN m THEN m[id] ELSE <<>>

NoDuplicate(q) ==
    \A i, j \in 1..Len(q) :
        i # j => q[i].stack # q[j].stack /\ q[i].thread_id # q[j].thread_id

\* C1 (mailbox FIFO): for every id, the payloads its receive() calls have
\* returned so far are, in order, a prefix of the payloads passed to send for
\* that id in call order: nothing is reordered, duplicated or skipped.
C1_MailboxFifo == \A id \in Ids : IsPrefix(recvd[id], sent[id])

\* a second payload was handed to an actor that had blocked for it
C1_Witness ==
    /\ last.op = "resume"
    /\ last.done = "receive"
    /\ Len(recvd[last.key]) >= 2

\* C2 (main resumes only when all actors are gone): when the trampoline has
\* resumed main, the ready queue and the waiting table are both empty; the
\* ready queue is never empty while an actor is blocked in receive.
C2_MainOnlyWhenAllGone ==
    /\ main_pc = "resumed" => Len(CONTEXTS) = 0 /\ DOMAIN WAITING = {}
    /\ (CTX_MAIN /\ Len(CONTEXTS) = 0) => DOMAIN WAITING = {}

\* C3 (termination reclaims resources): right after an entry function has
\* returned its id is not live, and whenever a schedule(), send() or receive()
\* call has just returned, the stack of every actor that terminated before is
\* released and not in the deferred-free slot.
C3_TerminationReclaims ==
    /\ last.op = "exit" => last.key \notin ID
    /\ last.done \in {"schedule", "send", "receive"} =>
           /\ UNUSED_STACK \notin exited
           /\ \A s \in exited : released[s] >= 1

\* C4 (deadlock detection): a receive() made with an empty mailbox queue by
\* the only context of the ready queue ends in the deadlock panic; it does not
\* change the ready queue or the waiting table (no block, no switch).
C4_DeadlockDetection ==
    [][ ( /\ Running
          /\ last'.op = "receive"
          /\ steps' = steps + 1
          /\ MailboxEmpty(Self.thread_id)
          /\ Len(CONTEXTS) = 1 )
        => ( /\ fatal' = "deadlock"
             /\ CONTEXTS' = CONTEXTS
             /\ WAITING' = WAITING ) ]_vars

C4_Witness == fatal = "deadlock" /\ Len(CONTEXTS) = 1 /\ last.op = "receive"

\* C5 (no double wake): a send to an id in the waiting table moves that
\* context to the ready queue and out of the table; a send to an id whose
\* context is in the ready queue leaves the membership of the ready queue and
\* the table unchanged; either way the payload is appended to the id's queue,
\* and no context is ever twice in the ready queue.
C5_NoDoubleWake ==
    /\ [] NoDuplicate(CONTEXTS)
    /\ [][ ( /\ Running
             /\ last'.op = "send"
             /\ steps' = steps + 1 )
           => LET key == last'.key IN
              /\ QueueOf(MESSAGES', key) = Append(QueueOf(MESSAGES, key), last'.val)
              /\ IF key \in DOMAIN WAITING
                 THEN /\ DOMAIN WAITING' = DOMAIN WAITING \ {key}
                      /\ WAITING[key].stack \notin StacksOf(CONTEXTS)
                      /\ StacksOf(CONTEXTS') = StacksOf(CONTEXTS) \cup {WAITING[key].stack}
                      /\ Len(CONTEXTS') = Len(CONTEXTS) + 1
                 ELSE /\ WAITING' = WAITING
                      /\ StacksOf(CONTEXTS') = StacksOf(CONTEXTS)
                      /\ Len(CONTEXTS') = Len(CONTEXTS) ]_vars

\* a further send reached an actor that an earlier send had woken and that
\* has run since and is still in the ready queue
C5_Witness ==
    /\ last.op = "send"
    /\ last.val >= 2
    /\ \E i \in 1..Len(CONTEXTS) :
         /\ CONTEXTS[i].thread_id = last.key
         /\ CONTEXTS[i].stack \in woken
         /\ CONTEXTS[i].stack # last.ctx
         /\ CONTEXTS[i].pc # "receive"

StackSeq(q) == [i \in 1..Len(q) |-> q[i].stack]

\* C6 (round-robin fairness): while actors only call schedule(), the actor
\* that runs has made no more schedule() calls than any other ready actor and
\* nobody is more than one call ahead of it (all finish iteration K before
\* anyone starts iteration K+1), and a schedule() call with two or more ready
\* contexts moves the caller to the tail and leaves the others in order.
C6_RoundRobin ==
    /\ [] ( (CTX_MAIN /\ Len(CONTEXTS) > 0) =>
               \A i \in 1..Len(CONTEXTS) :
                   /\ iters[CONTEXTS[1].stack] <= iters[CONTEXTS[i].stack]
                   /\ iters[CONTEXTS[i].stack] <= iters[CONTEXTS[1].stack] + 1 )
    /\ [][ ( /\ Running
             /\ last'.op = "schedule"
             /\ steps' = steps + 1
             /\ Len(CONTEXTS) >= 2 )
           => StackSeq(CONTEXTS') = Tail(StackSeq(CONTEXTS)) \o <<Self.stack>> ]_vars

\* three actors loop, and the one that runs starts its third iteration
C6_Witness ==
    /\ Running
    /\ Len(CONTEXTS) = 3
    /\ iters[Self.stack] = 2

\* C7 (teardown clears everything): when spawn_from_main has returned to the
\* host, the live-id set, the mailbox, the ready queue, the waiting table and
\* the deferred-free slot are empty and the main context is absent.
C7_TeardownClears ==
    last.op = "teardown" =>
        /\ ID = {}
        /\ DOMAIN MESSAGES = {}
        /\ Len(CONTEXTS) = 0
        /\ DOMAIN WAITING = {}
        /\ UNUSED_STACK = NullStack
        /\ ~CTX_MAIN

\* a session returned in which a message was sent and never received
C7_Witness ==
    /\ last.op = "teardown"
    /\ \E id \in Ids : Len(sent[id]) > Len(recvd[id])

C9_WokenAheadOfSender ==
    /\ \A d \in wakeDebt :
         \E i, j \in 1..Len(CONTEXTS) :
             /\ i < j
             /\ CONTEXTS[i].stack = d[2] /\ CONTEXTS[i].pc = "receive"
             /\ CONTEXTS[j].stack = d[1] /\ CONTEXTS[j].pc = "send"
    /\ \A d \in wakeDebt :
         (last.op = "send" /\ last.ctx = d[1]) =>
             /\ CONTEXTS[Len(CONTEXTS)].stack = d[1]
             /\ CONTEXTS[Len(CONTEXTS) - 1].stack = d[2]

\* the woken actor got its payload while the sender that woke it is still
\* inside send()
C9_Witness ==
    /\ last.op = "resume"
    /\ last.done = "receive"
    /\ last.val # None
    /\ last.ctx \in woken
    /\ wakeDebt = {}
    /\ \E i \in 2..Len(CONTEXTS) : CONTEXTS[i].pc = "send"

Unstarted == {CONTEXTS[i].stack : i \in {j \in 1..Len(CONTEXTS) : CONTEXTS[j].pc = "entry"}}

Panicked == fatal \in {"deadlock", "twice"}

\* C10 (session termination): actor code makes finitely many runtime calls;
\* unless a receive() panics with deadlock (or actor code calls
\* spawn_from_main), every spawned actor starts its entry function (a context
\* at entry_point leaves that state only by starting, and eventually none is
\* left there), the ready queue eventually is empty with main resumed, and
\* spawn_from_main then returns to the host.
C10_SessionTerminates ==
    /\ [][ \A s \in Unstarted :
              s \notin Unstarted' => (last'.op = "start" /\ last'.ctx = s) ]_vars
    /\ <>[] (Unstarted = {} \/ Panicked)
    /\ (main_pc = "saved") ~> ((main_pc = "resumed" /\ Len(CONTEXTS) = 0) \/ Panicked)
    /\ (main_pc = "resumed") ~> (main_pc = "host" /\ last.op = "teardown")

\* a session in which all the actors the bounds allow were spawned has returned
C10_Witness ==
    /\ last.op = "teardown"
    /\ Cardinality(exited) = MaxActors

\* C11 (deferred-free slot never overwritten): every stack whose actor has
\* terminated in the session is either the one held in the deferred-free slot
\* and not yet released, or released exactly once and not in the slot; a
\* termination that finds the slot occupied loses the stack it overwrites.
C11_SlotNeverOverwritten ==
    \A s \in exited :
        \/ UNUSED_STACK = s /\ released[s] = 0
        \/ UNUSED_STACK # s /\ released[s] = 1

\* C12 (never free a stack in use): no stack is released twice, and a step
\* that releases a stack releases the one of the deferred-free slot, whose
\* actor's entry function has returned, which is not the stack the processor
\* runs on and belongs to no context of the ready queue or the waiting table,
\* before or after the step.
C12_NeverFreeInUse ==
    /\ [] (\A s \in Stacks : released[s] <= 1)
    /\ [][ \A s \in Stacks :
               released'[s] > released[s]
               => /\ s = UNUSED_STACK
                  /\ s \in exited
                  /\ s # cur'
                  /\ s \notin StacksOf(CONTEXTS) \cup WaitingStacks
                  /\ s \notin StacksOf(CONTEXTS') \cup WaitingStacks' ]_vars

\* a stack was released by the resumed part of a call while another actor was
\* blocked in receive()
C12_Witness ==
    /\ last.op = "resume"
    /\ \E s \in Stacks : released[s] = 1 /\ s \in exited
    /\ UNUSED_STACK = NullStack
    /\ DOMAIN WAITING # {}

\* C13 (ready/waiting exclusivity): no context and no id is twice in the
\* ready queue, none is in the ready queue and in the waiting table at once,
\* and the table holds each context under its own id; a context enters the
\* table only as the caller of a receive() that leaves the ready queue, and
\* leaves it only into the ready queue by a send to its id (or when the
\* session's teardown drops the table).
C13_ReadyWaitingExclusive ==
    /\ [] ( /\ NoDuplicate(CONTEXTS)
            /\ IdsOf(CONTEXTS) \cap DOMAIN WAITING = {}
            /\ StacksOf(CONTEXTS) \cap WaitingStacks = {}
            /\ \A k \in DOMAIN WAITING : WAITING[k].thread_id = k
            /\ \A j, k \in DOMAIN WAITING : j # k => WAITING[j].stack # WAITING[k].stack )
    /\ [][ \A s \in Stacks :
               /\ s \in WaitingStacks' \ WaitingStacks
                  => /\ last'.op = "receive"
                     /\ s = Head(CONTEXTS).stack
                     /\ s \notin StacksOf(CONTEXTS')
               /\ s \in WaitingStacks \ WaitingStacks'
                  => \/ /\ last'.op = "send"
                        /\ last'.key \in DOMAIN WAITING
                        /\ WAITING[last'.key].stack = s
                        /\ s \in StacksOf(CONTEXTS')
                     \/ last'.op = "teardown"
               /\ s \in StacksOf(CONTEXTS') \ StacksOf(CONTEXTS)
                  => \/ s \in WaitingStacks /\ last'.op = "send"
                     \/ s = heap + 1 ]_vars

\* a send has moved a blocked context back into the ready queue, where it
\* waits to resume its receive(), while another actor stays blocked
C13_Witness ==
    /\ last.op = "send"
    /\ \E i \in 1..Len(CONTEXTS) :
           CONTEXTS[i].thread_id = last.key /\ CONTEXTS[i].pc = "receive"
    /\ DOMAIN WAITING # {}

\* C14 (live-id set exact): while a session runs actor code the live-id set
\* is exactly the ids of the ready queue together with the ids of the waiting
\* table; a spawn adds exactly one id, which was not a member, and a
\* termination removes exactly the id of the terminating actor, which was a
\* member.
C14_LiveIdSetExact ==
    /\ [] ( (fatal = "none" /\ main_pc = "saved")
            => ID = IdsOf(CONTEXTS) \cup DOMAIN WAITING )
    /\ [][ (last'.op = "spawn" /\ steps' = steps + 1)
           => /\ last'.key \notin ID
              /\ ID' = ID \cup {last'.key} ]_vars
    /\ [][ (last'.op = "exit" /\ exited' # exited)
           => /\ last'.key = Head(CONTEXTS).thread_id
              /\ last'.key \in ID
              /\ ID' = ID \ {last'.key} ]_vars

\* an actor terminated while one actor was blocked and another was ready
C14_Witness ==
    /\ last.op = "exit"
    /\ DOMAIN WAITING # {}
    /\ Len(CONTEXTS) >= 1
    /\ Cardinality(ID) = 2

\* C15 (the running actor is the front of the ready queue): while a session
\* runs actor code, the front context of the ready queue is the one whose
\* stack the processor runs on; so at every spawn, send, receive or schedule
\* call and at every return of an entry function the front context is the
\* caller's own: receive() reads the caller's own id and the trampoline pops
\* the caller's own context and records the caller's own stack.
C15_RunningIsFront ==
    /\ [] ( (fatal = "none" /\ main_pc = "saved")
            => Len(CONTEXTS) > 0 /\ Head(CONTEXTS).stack = cur )
    /\ [][ last'.op \in {"spawn", "send", "receive", "schedule", "exit"}
           => /\ Head(CONTEXTS).stack = cur
              /\ last'.ctx = cur
              /\ last'.op \in {"receive", "exit"}
                 => last'.key = Head(CONTEXTS).thread_id
              /\ last'.op = "exit"
                 => /\ UNUSED_STACK' = cur
                    /\ cur \notin StacksOf(CONTEXTS') ]_vars

\* an entry function returned and the trampoline switched to an actor that a
\* send had woken: the processor runs on the stack of the new front context
C15_Witness ==
    /\ last.op = "exit"
    /\ Len(CONTEXTS) >= 1
    /\ Head(CONTEXTS).pc = "receive"
    /\ Head(CONTEXTS).stack = cur
    /\ cur # last.ctx

\* C16 (schedule() rotation): a schedule() call made with one context in the
\* ready queue returns at once and changes nothing; made with two or more, it
\* moves the caller from the front to the tail, the former second context
\* becomes the front and is the one resumed, the others keep their order, and
\* the waiting table, the mailbox and the live-id set are unchanged.
C16_ScheduleRotation ==
    [][ (last'.op = "schedule" /\ steps' = steps + 1)
        => LET n == Len(CONTEXTS) IN
           IF n = 1
           THEN /\ UNCHANGED code
                /\ cur' = cur
                /\ last'.done = "schedule"
           ELSE /\ Len(CONTEXTS') = n
                /\ \A i \in 1..(n - 1) : CONTEXTS'[i] = CONTEXTS[i + 1]
                /\ CONTEXTS'[n].stack = CONTEXTS[1].stack
                /\ CONTEXTS'[n].thread_id = CONTEXTS[1].thread_id
                /\ CONTEXTS'[n].sp = cur
                /\ cur' = CONTEXTS[2].stack
                /\ last'.done = ""
                /\ UNCHANGED <<WAITING, MESSAGES, ID>> ]_vars

\* a schedule() call has rotated a ready queue of three contexts
C16_Witness ==
    /\ last.op = "schedule"
    /\ last.done = ""
    /\ Len(CONTEXTS) = 3
    /\ CONTEXTS[3].stack = last.ctx
    /\ cur = CONTEXTS[1].stack

\* C17 (receive() fast path): a receive() whose caller's mailbox queue is not
\* empty returns at once the oldest payload of the queue and takes it out;
\* there is no switch and no panic, and the ready queue and the waiting table
\* are unchanged, also when the caller is the only ready context.
C17_ReceiveFastPath ==
    [][ ( /\ last'.op = "receive"
          /\ steps' = steps + 1
          /\ ~MailboxEmpty(Head(CONTEXTS).thread_id) )
        => LET key == Head(CONTEXTS).thread_id IN
           /\ last'.done = "receive"
           /\ last'.key = key
           /\ last'.val = Head(MESSAGES[key])
           /\ last'.val = sent[key][Len(recvd[key]) + 1]
           /\ QueueOf(MESSAGES', key) = Tail(MESSAGES[key])
           /\ \A k \in Ids \ {key} : QueueOf(MESSAGES', k) = QueueOf(MESSAGES, k)
           /\ CONTEXTS' = CONTEXTS
           /\ WAITING' = WAITING
           /\ cur' = cur
           /\ fatal' = "none" ]_vars

\* the only ready actor took the older of two queued payloads without the
\* deadlock panic
C17_Witness ==
    /\ last.op = "receive"
    /\ last.done = "receive"
    /\ Len(CONTEXTS) = 1
    /\ fatal = "none"
    /\ last.key \in DOMAIN MESSAGES

\* C18 (receive() always delivers): whenever a receive() call has returned,
\* by the fast path or after a block, what it returned is a payload that was
\* passed to a send for the caller's id, never the "no message" result.
C18_ReceiveDelivers ==
    last.done = "receive"
    => /\ last.val # None
       /\ last.ctx = cur
       /\ last.key = Head(CONTEXTS).thread_id
       /\ \E i \in 1..Len(sent[last.key]) : sent[last.key][i] = last.val

\* a blocked receive() returned, after its caller was woken and resumed, the
\* one payload that was queued for it
C18_Witness ==
    /\ last.op = "resume"
    /\ last.done = "receive"
    /\ last.val # None
    /\ MailboxEmpty(last.key)

\* C19 (no stale mail): whenever a receive() call has returned a payload, the
\* payload was passed to a send made after the caller was spawned, and right
\* after a spawn the mailbox holds nothing for the id of the new actor.
C19_NoStaleMail ==
    /\ (last.done = "receive" /\ last.val # None) => last.val > born[last.key]
    /\ last.op = "spawn" => MailboxEmpty(last.key)

\* C20 (mailbox pruning): the mailbox never maps an id to an empty queue; an
\* entry appears only by a send to its id, holding that send's payload alone,
\* and an entry disappears only when a receive() of its id returns the last
\* payload of its queue (or when the teardown clears the mailbox).
C20_MailboxPruned ==
    /\ [] (\A k \in DOMAIN MESSAGES : Len(MESSAGES[k]) > 0)
    /\ [][ \A k \in Ids :
               /\ k \in DOMAIN MESSAGES' \ DOMAIN MESSAGES
                  => /\ last'.op = "send"
                     /\ last'.key = k
                     /\ MESSAGES'[k] = <<last'.val>>
               /\ k \in DOMAIN MESSAGES \ DOMAIN MESSAGES'
                  => \/ /\ last'.done = "receive"
                        /\ last'.key = k
                        /\ MESSAGES[k] = <<last'.val>>
                     \/ last'.op = "teardown" ]_vars

\* a receive() took the last payload of its caller's queue and the entry is
\* gone, while the queue of another id remains
C20_Witness ==
    /\ last.done = "receive"
    /\ last.val # None
    /\ last.key \notin DOMAIN MESSAGES
    /\ DOMAIN MESSAGES # {}

====
